---------------------------- MODULE Spec2Model ----------------------------
(***************************************************************************)
(* A model of mod.ts, the emulated 64 bit two's-complement integer `Long`. *)
(*                                                                         *)
(* A Long is the record [low, high, unsigned]; low and high are signed     *)
(* 32 bit words exactly as the constructor stores them (x | 0).            *)
(*                                                                         *)
(* TLC's integers are 32 bit, so every JavaScript number that can leave    *)
(* the int32 range is kept in limbs:                                       *)
(*   - a "wide" number  [hi, lo] = hi * 2^16 + lo  for the 16 bit chunk    *)
(*     products and sums of add and multiply (all below 2^35);             *)
(*   - a "big" number, five 16 bit limbs, least significant first, for     *)
(*     the doubles of toNumber, fromNumber and divide (all at most 2^64)   *)
(*     and for the 64 bit integers of the WebAssembly module.              *)
(* Doubles are rounded where JavaScript rounds them: to 53 significant     *)
(* bits, ties to even.                                                     *)
(***************************************************************************)
EXTENDS Integers, Sequences, FiniteSets

(***************************************************************************)
(* Program constants.                                                      *)
(***************************************************************************)
TWO_PWR_16_DBL == 65536

TWO_PWR_24_DBL == 16777216

MaxInt32 == 2147483647

MinInt32 == -MaxInt32 - 1

MantissaBits == 53

(***************************************************************************)
(* 32 bit words: the JavaScript operators  >>> 16,  & 0xFFFF,  << 16 |,    *)
(* ~,  <<,  >>,  >>>  on int32 operands.                                   *)
(***************************************************************************)
\* x >>> 16   (the upper 16 bits of the word, read as unsigned)
Hi16(x) == IF x >= 0 THEN x \div TWO_PWR_16_DBL
                     ELSE TWO_PWR_16_DBL + (x \div TWO_PWR_16_DBL)

\* x & 0xFFFF
Lo16(x) == x % TWO_PWR_16_DBL

\* (hi << 16) | lo   for hi, lo in 0 .. 0xFFFF, as an int32
Word(hi, lo) == IF hi >= 32768 THEN (hi - TWO_PWR_16_DBL) * TWO_PWR_16_DBL + lo
                               ELSE hi * TWO_PWR_16_DBL + lo

\* ~x
Not32(x) == -1 - x

\* x & 1
Bit0(x) == x % 2

\* the upper bit of the word: x >>> 31
Bit31(x) == IF x < 0 THEN 1 ELSE 0

Pow2(n) == 2 ^ n

\* x << n  for 0 < n < 32
Shl32(x, n) ==
    IF n >= 16
    THEN Word((Lo16(x) * Pow2(n - 16)) % TWO_PWR_16_DBL, 0)
    ELSE LET l == Lo16(x) * Pow2(n)
         IN  Word((Hi16(x) * Pow2(n) + l \div TWO_PWR_16_DBL) % TWO_PWR_16_DBL,
                  l % TWO_PWR_16_DBL)

\* x >>> n  for 0 < n < 32; the result is below 2^31 and is its own int32
Shru32(x, n) ==
    IF n >= 16
    THEN Hi16(x) \div Pow2(n - 16)
    ELSE (Hi16(x) \div Pow2(n)) * TWO_PWR_16_DBL
         + (Hi16(x) % Pow2(n)) * Pow2(16 - n) + Lo16(x) \div Pow2(n)

\* x >> n  for 0 < n < 32 (sign-propagating)
Shr32(x, n) == IF n = 31 THEN (IF x < 0 THEN -1 ELSE 0) ELSE x \div Pow2(n)

\* x | y  for words that have no set bit in common
Or32(x, y) == Word((Hi16(x) + Hi16(y)) % TWO_PWR_16_DBL, (Lo16(x) + Lo16(y)) % TWO_PWR_16_DBL)

(***************************************************************************)
(* Wide numbers: [hi, lo] stands for hi * 2^16 + lo, lo in 0 .. 0xFFFF.    *)
(***************************************************************************)
Wide(h, l) == [hi |-> h + l \div TWO_PWR_16_DBL, lo |-> l % TWO_PWR_16_DBL]

\* a * b for 16 bit a, b
WMul(a, b) ==
    LET t == (a \div 256) * b
    IN  Wide(t \div 256, (t % 256) * 256 + (a % 256) * b)

WAdd(w, v) == Wide(w.hi + v.hi, w.lo + v.lo)

\* w >>> 16  (ToUint32 first: modulo 2^32)
WShru16(w) == w.hi % TWO_PWR_16_DBL

\* w & 0xFFFF
WLo16(w) == w.lo

(***************************************************************************)
(* Big numbers: five 16 bit limbs, least significant first.                *)
(***************************************************************************)
NLimbs == 5

BZero == <<0, 0, 0, 0, 0>>

BOne == <<1, 0, 0, 0, 0>>

\* the unsigned 64 bit integer of the words (low, high)
BFromWords(low, high) == <<Lo16(low), Hi16(low), Lo16(high), Hi16(high), 0>>

\* the int32 words of the low 64 bits
BLowWord(x) == Word(x[2], x[1])

BHighWord(x) == Word(x[4], x[3])

BAdd(x, y) ==
    LET s1 == x[1] + y[1]
        s2 == x[2] + y[2] + s1 \div TWO_PWR_16_DBL
        s3 == x[3] + y[3] + s2 \div TWO_PWR_16_DBL
        s4 == x[4] + y[4] + s3 \div TWO_PWR_16_DBL
        s5 == x[5] + y[5] + s4 \div TWO_PWR_16_DBL
    IN  <<s1 % TWO_PWR_16_DBL, s2 % TWO_PWR_16_DBL, s3 % TWO_PWR_16_DBL,
          s4 % TWO_PWR_16_DBL, s5 % TWO_PWR_16_DBL>>

\* x - y modulo 2^80 (x - y itself when x >= y)
BSub(x, y) ==
    LET s1 == x[1] - y[1]
        s2 == x[2] - y[2] + s1 \div TWO_PWR_16_DBL
        s3 == x[3] - y[3] + s2 \div TWO_PWR_16_DBL
        s4 == x[4] - y[4] + s3 \div TWO_PWR_16_DBL
        s5 == x[5] - y[5] + s4 \div TWO_PWR_16_DBL
    IN  <<s1 % TWO_PWR_16_DBL, s2 % TWO_PWR_16_DBL, s3 % TWO_PWR_16_DBL,
          s4 % TWO_PWR_16_DBL, s5 % TWO_PWR_16_DBL>>

\* x < y
BLt(x, y) ==
    IF x[5] # y[5] THEN x[5] < y[5]
    ELSE IF x[4] # y[4] THEN x[4] < y[4]
    ELSE IF x[3] # y[3] THEN x[3] < y[3]
    ELSE IF x[2] # y[2] THEN x[2] < y[2]
    ELSE x[1] < y[1]

BLe(x, y) == ~BLt(y, x)

\* the number of bits of a limb
RECURSIVE BitLen16(_)
BitLen16(l) == IF l = 0 THEN 0 ELSE 1 + BitLen16(l \div 2)

\* the number of bits of x (0 for zero)
BBits(x) ==
    IF x[5] # 0 THEN 64 + BitLen16(x[5])
    ELSE IF x[4] # 0 THEN 48 + BitLen16(x[4])
    ELSE IF x[3] # 0 THEN 32 + BitLen16(x[3])
    ELSE IF x[2] # 0 THEN 16 + BitLen16(x[2])
    ELSE BitLen16(x[1])

\* limb i (1-based) of x, zero outside 1 .. NLimbs
BLimb(x, i) == IF i >= 1 /\ i <= NLimbs THEN x[i] ELSE 0

\* floor(x / 2^k); the limbs are written out one by one because a tuple is
\* computed when it is built
BShr(x, k) ==
    LET j == k \div 16
        m == Pow2(k % 16)
        n == TWO_PWR_16_DBL \div m
        L(i) == BLimb(x, i + j) \div m + (BLimb(x, i + j + 1) % m) * n
    IN  <<L(1), L(2), L(3), L(4), L(5)>>

\* x * 2^k modulo 2^80
BShl(x, k) ==
    LET j == k \div 16
        m == Pow2(k % 16)
        n == TWO_PWR_16_DBL \div m
        L(i) == (BLimb(x, i - j) % n) * m + BLimb(x, i - j - 1) \div n
    IN  <<L(1), L(2), L(3), L(4), L(5)>>

\* 2^k
BPow2(k) == BShl(BOne, k)

\* bit k (0-based) of x
BBit(x, k) == (BLimb(x, k \div 16 + 1) \div Pow2(k % 16)) % 2

\* x * d for a 16 bit d, modulo 2^80
BMulLimb(x, d) ==
    LET p1 == WMul(x[1], d)
        p2 == WAdd(WMul(x[2], d), Wide(0, p1.hi))
        p3 == WAdd(WMul(x[3], d), Wide(0, p2.hi))
        p4 == WAdd(WMul(x[4], d), Wide(0, p3.hi))
        p5 == WAdd(WMul(x[5], d), Wide(0, p4.hi))
    IN  <<p1.lo, p2.lo, p3.lo, p4.lo, p5.lo>>

\* x * y modulo 2^80
BMul(x, y) ==
    BAdd(BAdd(BMulLimb(x, y[1]), BShl(BMulLimb(x, y[2]), 16)),
         BAdd(BAdd(BShl(BMulLimb(x, y[3]), 32), BShl(BMulLimb(x, y[4]), 48)),
              BShl(BMulLimb(x, y[5]), 64)))

\* x modulo 2^64
BMod64(x) == <<x[1], x[2], x[3], x[4], 0>>

\* One step of binary long division: bit k of x is brought down into the
\* remainder p.r, and the next bit of the quotient p.q is decided.
BDivBit(x, y, k, p) ==
    LET r2 == BAdd(BShl(p.r, 1), <<BBit(x, k), 0, 0, 0, 0>>)
    IN  IF BLe(y, r2)
        THEN [q |-> BAdd(BShl(p.q, 1), BOne), r |-> BSub(r2, y)]
        ELSE [q |-> BShl(p.q, 1), r |-> r2]

\* The steps for the bits hi, hi - 1, ..., lo of x, in that order. The range
\* is halved rather than peeled so that the evaluation stays shallow.
RECURSIVE BDivBits(_, _, _, _, _)
BDivBits(x, y, hi, lo, p) ==
    IF hi = lo THEN BDivBit(x, y, hi, p)
    ELSE LET mid  == (hi + lo) \div 2
             done == BDivBits(x, y, hi, mid + 1, p)
         IN  \* the test computes `done` before the lower half starts
             IF done.r = done.r THEN BDivBits(x, y, mid, lo, done) ELSE done

\* [q, r]: the quotient and the remainder of x by y, y # 0
BDivMod(x, y) ==
    IF BLt(x, y) THEN [q |-> BZero, r |-> x]
    ELSE LET s == BBits(x) - BBits(y) + 1
         IN  BDivBits(x, y, s - 1, 0, [q |-> BZero, r |-> BShr(x, s)])

(***************************************************************************)
(* JavaScript numbers. A number is [nan, neg, mag]: not-a-number, or the   *)
(* integer +mag or -mag with mag a big number. Every number the program    *)
(* computes on the paths modelled is an integer, but for the quotient of   *)
(* line 692, which is floored at once.                                     *)
(***************************************************************************)
Num(n, b) == [nan |-> FALSE, neg |-> n /\ b # BZero, mag |-> b]

NaN == [nan |-> TRUE, neg |-> FALSE, mag |-> BZero]

\* the number of a small non-negative integer
NumOfInt(i) == Num(FALSE, <<i % TWO_PWR_16_DBL, i \div TWO_PWR_16_DBL, 0, 0, 0>>)

\* x rounded as a double rounds: to 53 significant bits, ties to even
RoundDouble(x) ==
    LET n == BBits(x)
    IN  IF n <= MantissaBits THEN x
        ELSE LET k    == n - MantissaBits
                 q    == BShr(x, k)
                 rest == BSub(x, BShl(q, k))
                 half == BPow2(k - 1)
                 up   == BLt(half, rest) \/ (rest = half /\ q[1] % 2 = 1)
             IN  BShl(IF up THEN BAdd(q, BOne) ELSE q, k)

NumNeg(x) == IF x.nan THEN x ELSE Num(~x.neg, x.mag)

\* x < y  (false when either is NaN)
NumLt(x, y) ==
    /\ ~x.nan
    /\ ~y.nan
    /\ IF x.neg # y.neg THEN x.neg
       ELSE IF x.neg THEN BLt(y.mag, x.mag) ELSE BLt(x.mag, y.mag)

NumLe(x, y) == ~x.nan /\ ~y.nan /\ ~NumLt(y, x)

\* x + y, rounded
NumAdd(x, y) ==
    IF x.nan \/ y.nan THEN NaN
    ELSE IF x.neg = y.neg THEN Num(x.neg, RoundDouble(BAdd(x.mag, y.mag)))
    ELSE IF BLt(x.mag, y.mag) THEN Num(y.neg, RoundDouble(BSub(y.mag, x.mag)))
    ELSE Num(x.neg, RoundDouble(BSub(x.mag, y.mag)))

NumSub(x, y) == NumAdd(x, NumNeg(y))

\* x * y, rounded (the product of the magnitudes stays below 2^80 here)
NumMul(x, y) ==
    IF x.nan \/ y.nan THEN NaN
    ELSE Num(x.neg # y.neg, RoundDouble(BMul(x.mag, y.mag)))

\* Math.floor(x / y) for positive integers x and y: the quotient is rounded
\* to a double first, which can lift it to the next integer.
\*   t = x / y = q + r / y,  2^e <= t < 2^(e+1),  one ulp of t is 2^(e-52).
RoundedFloor(q, r, n, y) ==
    IF n <= MantissaBits - 1
    THEN \* one ulp is below 1: t rounds to q + 1 from q + 1 - ulp / 2 on
         IF BLe(BSub(y, r), BShr(y, MantissaBits + 1 - n)) THEN BAdd(q, BOne) ELSE q
    ELSE IF n = MantissaBits
    THEN \* one ulp is 1: t rounds to the nearest integer, ties to even
         LET r2 == BShl(r, 1)
         IN  IF BLt(y, r2) \/ (r2 = y /\ q[1] % 2 = 1) THEN BAdd(q, BOne) ELSE q
    ELSE \* one ulp is 2^k: the low k bits of q and r / y are rounded away
         LET k    == n - MantissaBits
             Q    == BShr(q, k)
             low  == BSub(q, BShl(Q, k))
             half == BPow2(k - 1)
             up   == \/ BLt(half, low)
                     \/ low = half /\ (r # BZero \/ Q[1] % 2 = 1)
         IN  BShl(IF up THEN BAdd(Q, BOne) ELSE Q, k)

RoundedQuotient(d, y) == RoundedFloor(d.q, d.r, BBits(d.q), y)

FloorOfQuotient(x, y) == RoundedQuotient(BDivMod(x, y), y)

\* Math.max(1, Math.floor(x / y)), y # 0   (line 692)
AtLeastOne(f) == IF f = BZero THEN BOne ELSE f

MaxOneFloorDiv(x, y) ==
    IF x.nan \/ y.nan THEN NaN
    ELSE IF x.neg # y.neg \/ x.mag = BZero THEN Num(FALSE, BOne)
    ELSE Num(FALSE, AtLeastOne(FloorOfQuotient(x.mag, y.mag)))

\* Math.ceil(Math.log(v) / Math.LN2) for an integer v >= 1   (line 696).
\* Math.log is an implementation's approximation: where log2(v) lies within
\* rounding distance of an integer the quotient can fall on either side of
\* it, and `up` says on which. Everywhere else it is the number of bits of v.
LogSlackBits == 44

CeilLog2(v, up) ==
    LET n     == BBits(v.mag)
        w     == IF n - 1 > LogSlackBits THEN BPow2(n - 1 - LogSlackBits) ELSE BZero
        above == BLe(BSub(v.mag, BPow2(n - 1)), w)
        below == BLe(BSub(BPow2(n), v.mag), BShl(w, 1))
    IN  IF n = 1 THEN 0
        ELSE IF above THEN (IF up THEN n ELSE n - 1)
        ELSE IF below THEN (IF up THEN n + 1 ELSE n)
        ELSE n

\* Math.pow(radix, n) for small integers: exact, below 2^53
RECURSIVE PowInt(_, _)
PowInt(radix, n) == IF n = 0 THEN BOne ELSE BMulLimb(PowInt(radix, n - 1), radix)

(***************************************************************************)
(* The Long value and its factories.                                       *)
(***************************************************************************)
\* new Long(low, high, unsigned); the words are int32 already (x | 0)
fromBits(lowBits, highBits, unsigned) ==
    [low |-> lowBits, high |-> highBits, unsigned |-> unsigned]

\* the value fromInt builds; the cache it consults holds the same value
fromInt(value, unsigned) ==
    IF unsigned THEN fromBits(value, 0, TRUE)
    ELSE fromBits(value, IF value < 0 THEN -1 ELSE 0, FALSE)

ZERO == fromInt(0, FALSE)

UZERO == fromInt(0, TRUE)

ONE == fromInt(1, FALSE)

UONE == fromInt(1, TRUE)

MAX_VALUE == fromBits(-1, MaxInt32, FALSE)

NEG_ONE == fromInt(-1, FALSE)

MIN_VALUE == fromBits(0, MinInt32, FALSE)

MAX_UNSIGNED_VALUE == fromBits(-1, -1, TRUE)

TWO_PWR_63_DBL == Num(FALSE, BPow2(63))

TWO_PWR_64_DBL == Num(FALSE, BPow2(64))

TWO_PWR_24 == fromInt(TWO_PWR_24_DBL, FALSE)

\* toInt(), line 240, as a JavaScript number: low >>> 0 when unsigned
toInt(this) ==
    IF this.unsigned \/ this.low >= 0
    THEN Num(FALSE, <<Lo16(this.low), Hi16(this.low), 0, 0, 0>>)
    ELSE Num(TRUE, BSub(BPow2(32), <<Lo16(this.low), Hi16(this.low), 0, 0, 0>>))

isZero(this) == this.high = 0 /\ this.low = 0

isNegative(this) == ~this.unsigned /\ this.high < 0

isOdd(this) == Bit0(this.low) = 1

equals(this, other) ==
    IF this.unsigned # other.unsigned /\ Bit31(this.high) = 1 /\ Bit31(other.high) = 1
    THEN FALSE
    ELSE this.high = other.high /\ this.low = other.low

not(this) == fromBits(Not32(this.low), Not32(this.high), this.unsigned)

\* add with the carry out of the low word dropped
addNoCarry(this, addend) ==
    fromBits(Word((Hi16(this.low) + Hi16(addend.low)
                   + (Lo16(this.low) + Lo16(addend.low)) \div TWO_PWR_16_DBL) % TWO_PWR_16_DBL,
                  (Lo16(this.low) + Lo16(addend.low)) % TWO_PWR_16_DBL),
             Word((Hi16(this.high) + Hi16(addend.high)
                   + (Lo16(this.high) + Lo16(addend.high)) \div TWO_PWR_16_DBL) % TWO_PWR_16_DBL,
                  (Lo16(this.high) + Lo16(addend.high)) % TWO_PWR_16_DBL),
             this.unsigned)

add(this, addend) ==
    LET a48 == Hi16(this.high)
        a32 == Lo16(this.high)
        a16 == Hi16(this.low)
        a00 == Lo16(this.low)
        b48 == Hi16(addend.high)
        b32 == Lo16(addend.high)
        b16 == Hi16(addend.low)
        b00 == Lo16(addend.low)
        s00 == a00 + b00
        s16 == s00 \div TWO_PWR_16_DBL + a16 + b16
        s32 == s16 \div TWO_PWR_16_DBL + a32 + b32
        s48 == s32 \div TWO_PWR_16_DBL + a48 + b48
        c00 == Lo16(s00)
        c16 == Lo16(s16)
        c32 == Lo16(s32)
        c48 == Lo16(s48)
    IN  fromBits(Word(c16, c00), Word(c48, c32), this.unsigned)

\* negate without the increment: the one's complement
negateOnesComplement(this) == not(this)

negate(this) ==
    IF ~this.unsigned /\ equals(this, MIN_VALUE) THEN MIN_VALUE
    ELSE add(not(this), ONE)

subtract(this, subtrahend) == add(this, negate(subtrahend))

compare(this, other) ==
    IF equals(this, other) THEN 0
    ELSE LET thisNeg  == isNegative(this)
             otherNeg == isNegative(other)
         IN  IF thisNeg /\ ~otherNeg THEN -1
             ELSE IF ~thisNeg /\ otherNeg THEN 1
             ELSE IF ~this.unsigned
             THEN (IF isNegative(subtract(this, other)) THEN -1 ELSE 1)
             ELSE IF \/ Hi16(other.high) > Hi16(this.high)
                     \/ Hi16(other.high) = Hi16(this.high) /\ Lo16(other.high) > Lo16(this.high)
                     \/ other.high = this.high /\
                        (\/ Hi16(other.low) > Hi16(this.low)
                         \/ Hi16(other.low) = Hi16(this.low) /\ Lo16(other.low) > Lo16(this.low))
             THEN -1 ELSE 1

lessThan(this, other) == compare(this, other) < 0

greaterThan(this, other) == compare(this, other) > 0

greaterThanOrEqual(this, other) == compare(this, other) >= 0

toUnsigned(this) == IF this.unsigned THEN this ELSE fromBits(this.low, this.high, TRUE)

toSigned(this) == IF ~this.unsigned THEN this ELSE fromBits(this.low, this.high, FALSE)

toNumber(this) ==
    IF this.unsigned \/ this.high >= 0
    THEN Num(FALSE, RoundDouble(BFromWords(this.low, this.high)))
    ELSE Num(TRUE, RoundDouble(BSub(BPow2(64), BFromWords(this.low, this.high))))

RECURSIVE fromNumber(_, _)
fromNumber(value, unsigned) ==
    IF value.nan THEN (IF unsigned THEN UZERO ELSE ZERO)
    ELSE IF unsigned /\ value.neg THEN UZERO
    ELSE IF unsigned /\ NumLe(TWO_PWR_64_DBL, value) THEN MAX_UNSIGNED_VALUE
    ELSE IF ~unsigned /\ NumLe(value, NumNeg(TWO_PWR_63_DBL)) THEN MIN_VALUE
    ELSE IF ~unsigned /\ NumLe(TWO_PWR_63_DBL, NumAdd(value, Num(FALSE, BOne))) THEN MAX_VALUE
    ELSE IF value.neg THEN negate(fromNumber(NumNeg(value), unsigned))
    ELSE fromBits(BLowWord(value.mag), BHighWord(value.mag), unsigned)

shiftLeft(this, numBits0) ==
    LET numBits == numBits0 % 64
    IN  IF numBits = 0 THEN this
        ELSE IF numBits < 32
        THEN fromBits(Shl32(this.low, numBits),
                      Or32(Shl32(this.high, numBits), Shru32(this.low, 32 - numBits)),
                      this.unsigned)
        ELSE fromBits(0, Shl32(this.low, numBits - 32), this.unsigned)

shiftRight(this, numBits0) ==
    LET numBits == numBits0 % 64
    IN  IF numBits = 0 THEN this
        ELSE IF numBits < 32
        THEN fromBits(Or32(Shru32(this.low, numBits), Shl32(this.high, 32 - numBits)),
                      Shr32(this.high, numBits), this.unsigned)
        ELSE fromBits(Shr32(this.high, numBits - 32),
                      IF this.high >= 0 THEN 0 ELSE -1, this.unsigned)

shiftRightUnsigned(this, numBits0) ==
    LET numBits == numBits0 % 64
    IN  IF numBits = 0 THEN this
        ELSE IF numBits < 32
        THEN fromBits(Or32(Shru32(this.low, numBits), Shl32(this.high, 32 - numBits)),
                      Shru32(this.high, numBits), this.unsigned)
        ELSE IF numBits = 32 THEN fromBits(this.high, 0, this.unsigned)
        ELSE fromBits(Shru32(this.high, numBits - 32), 0, this.unsigned)

(***************************************************************************)
(* The WebAssembly module of lines 40-47: true 64-bit operations on the    *)
(* two operands given as (low, high) words.  A trap surfaces as a thrown   *)
(* RuntimeError.                                                           *)
(***************************************************************************)
TWO_PWR_63 == BPow2(63)

TWO_PWR_64 == BPow2(64)

\* magnitude and two's complement of a 64-bit pattern read as signed
BIsNeg64(x) == BLe(TWO_PWR_63, x)

BNeg64(x) == BMod64(BSub(TWO_PWR_64, x))

BAbs64(x) == IF BIsNeg64(x) THEN BNeg64(x) ELSE x

WasmOk(x) == [trap |-> FALSE, val |-> x]

WasmTrap == [trap |-> TRUE, val |-> BZero]

wasm_mul(al, ah, bl, bh) ==
    WasmOk(BMod64(BMul(BFromWords(al, ah), BFromWords(bl, bh))))

wasm_div_s(al, ah, bl, bh) ==
    LET x == BFromWords(al, ah)
        y == BFromWords(bl, bh)
        q == BDivMod(BAbs64(x), BAbs64(y)).q
    IN  IF y = BZero THEN WasmTrap
        ELSE IF x = TWO_PWR_63 /\ y = BFromWords(-1, -1) THEN WasmTrap
        ELSE WasmOk(IF BIsNeg64(x) # BIsNeg64(y) THEN BNeg64(q) ELSE q)

wasm_div_u(al, ah, bl, bh) ==
    LET x == BFromWords(al, ah)
        y == BFromWords(bl, bh)
    IN  IF y = BZero THEN WasmTrap ELSE WasmOk(BDivMod(x, y).q)

wasm_rem_s(al, ah, bl, bh) ==
    LET x == BFromWords(al, ah)
        y == BFromWords(bl, bh)
        r == BDivMod(BAbs64(x), BAbs64(y)).r
    IN  IF y = BZero THEN WasmTrap
        ELSE WasmOk(IF BIsNeg64(x) THEN BNeg64(r) ELSE r)

wasm_rem_u(al, ah, bl, bh) ==
    LET x == BFromWords(al, ah)
        y == BFromWords(bl, bh)
    IN  IF y = BZero THEN WasmTrap ELSE WasmOk(BDivMod(x, y).r)

(***************************************************************************)
(* Outcomes of a call: a returned value, a thrown error, or no return.     *)
(***************************************************************************)
Return(v) == [kind |-> "return", val |-> v]

Throw(e) == [kind |-> "throw", err |-> e]

NoReturn == [kind |-> "noreturn"]

Returned(o) == o.kind = "return"

\* Long.fromBits(low, wasm.get_high(), unsigned) around a wasm call
FromWasm(r, unsigned) ==
    IF r.trap THEN Throw("RuntimeError")
    ELSE Return(fromBits(BLowWord(r.val), BHighWord(r.val), unsigned))

(***************************************************************************)
(* Rotations, lines 866-905.  rotateLeft ends after its last two           *)
(* assignments without a return statement: for a count above 32 the call   *)
(* yields undefined.                                                       *)
(***************************************************************************)
rotateLeft(this, numBits0) ==
    LET numBits == numBits0 % 64
    IN  IF numBits = 0 THEN Return(this)
        ELSE IF numBits = 32 THEN Return(fromBits(this.high, this.low, this.unsigned))
        ELSE IF numBits < 32
        THEN Return(fromBits(Or32(Shl32(this.low, numBits), Shru32(this.high, 32 - numBits)),
                             Or32(Shl32(this.high, numBits), Shru32(this.low, 32 - numBits)),
                             this.unsigned))
        ELSE NoReturn

rotateRight(this, numBits0) ==
    LET numBits == numBits0 % 64
    IN  IF numBits = 0 THEN this
        ELSE IF numBits = 32 THEN fromBits(this.high, this.low, this.unsigned)
        ELSE IF numBits < 32
        THEN fromBits(Or32(Shl32(this.high, 32 - numBits), Shru32(this.low, numBits)),
                      Or32(Shl32(this.low, 32 - numBits), Shru32(this.high, numBits)),
                      this.unsigned)
        ELSE fromBits(Or32(Shl32(this.low, 64 - numBits), Shru32(this.high, numBits - 32)),
                      Or32(Shl32(this.high, 64 - numBits), Shru32(this.low, numBits - 32)),
                      this.unsigned)

(***************************************************************************)
(* multiply, lines 515-595                                                 *)
(***************************************************************************)
\* the chunks added up with the carry out of the third chunk left out of
\* the fourth
MultiplyChunksCarryLost(this, multiplier) ==
    LET a48 == Hi16(this.high)
        a32 == Lo16(this.high)
        a16 == Hi16(this.low)
        a00 == Lo16(this.low)
        b48 == Hi16(multiplier.high)
        b32 == Lo16(multiplier.high)
        b16 == Hi16(multiplier.low)
        b00 == Lo16(multiplier.low)
        p00 == WMul(a00, b00)
        c00 == WLo16(p00)
        p16a == WAdd(Wide(0, WShru16(p00)), WMul(a16, b00))
        p16b == WAdd(Wide(0, WLo16(p16a)), WMul(a00, b16))
        c16 == WLo16(p16b)
        p32a == WAdd(Wide(0, WShru16(p16a) + WShru16(p16b)), WMul(a32, b00))
        p32b == WAdd(Wide(0, WLo16(p32a)), WMul(a16, b16))
        p32c == WAdd(Wide(0, WLo16(p32b)), WMul(a00, b32))
        c32 == WLo16(p32c)
        c48 == (WLo16(WMul(a48, b00)) + WLo16(WMul(a32, b16))
                + WLo16(WMul(a16, b32)) + WLo16(WMul(a00, b48))) % TWO_PWR_16_DBL
    IN  fromBits(Word(c16, c00), Word(c48, c32), this.unsigned)

\* lines 563-594: four 16-bit chunks each, 4x4 products without the
\* overflowing ones
MultiplyChunks(this, multiplier) ==
    LET a48 == Hi16(this.high)
        a32 == Lo16(this.high)
        a16 == Hi16(this.low)
        a00 == Lo16(this.low)
        b48 == Hi16(multiplier.high)
        b32 == Lo16(multiplier.high)
        b16 == Hi16(multiplier.low)
        b00 == Lo16(multiplier.low)
        p00 == WMul(a00, b00)
        c00 == WLo16(p00)
        p16a == WAdd(Wide(0, WShru16(p00)), WMul(a16, b00))
        p16b == WAdd(Wide(0, WLo16(p16a)), WMul(a00, b16))
        c16 == WLo16(p16b)
        p32a == WAdd(Wide(0, WShru16(p16a) + WShru16(p16b)), WMul(a32, b00))
        p32b == WAdd(Wide(0, WLo16(p32a)), WMul(a16, b16))
        p32c == WAdd(Wide(0, WLo16(p32b)), WMul(a00, b32))
        c32 == WLo16(p32c)
        c48 == (WShru16(p32a) + WShru16(p32b) + WShru16(p32c)
                + WLo16(WMul(a48, b00)) + WLo16(WMul(a32, b16))
                + WLo16(WMul(a16, b32)) + WLo16(WMul(a00, b48))) % TWO_PWR_16_DBL
    IN  fromBits(Word(c16, c00), Word(c48, c32), this.unsigned)

RECURSIVE multiply(_, _, _)
multiply(this, multiplier, wasm) ==
    IF isZero(this) THEN this
    ELSE IF wasm
    THEN FromWasm(wasm_mul(this.low, this.high, multiplier.low, multiplier.high),
                  this.unsigned).val
    ELSE IF isZero(multiplier) THEN (IF this.unsigned THEN UZERO ELSE ZERO)
    ELSE IF equals(this, MIN_VALUE) THEN (IF isOdd(multiplier) THEN MIN_VALUE ELSE ZERO)
    ELSE IF equals(multiplier, MIN_VALUE) THEN (IF isOdd(this) THEN MIN_VALUE ELSE ZERO)
    ELSE IF isNegative(this)
    THEN (IF isNegative(multiplier)
          THEN multiply(negate(this), negate(multiplier), wasm)
          ELSE negate(multiply(negate(this), multiplier, wasm)))
    ELSE IF isNegative(multiplier)
    THEN negate(multiply(this, negate(multiplier), wasm))
    ELSE IF lessThan(this, TWO_PWR_24) /\ lessThan(multiplier, TWO_PWR_24)
    THEN fromNumber(NumMul(toNumber(this), toNumber(multiplier)), this.unsigned)
    ELSE MultiplyChunks(this, multiplier)

(***************************************************************************)
(* divide, lines 601-719                                                   *)
(***************************************************************************)
\* lines 701-702 and 705-706: the approximation as a Long, and its product
DivideApprox(approxRes, divisor, wasm) ==
    [approxRes |-> approxRes, approxRem |-> multiply(approxRes, divisor, wasm)]

\* lines 703-707: decrease the approximation while the product is negative
\* or exceeds the remainder
RECURSIVE DivideDecrease(_, _, _, _, _, _)
RECURSIVE DivideDecreaseFrom(_, _, _, _, _, _, _)
DivideDecreaseFrom(cur, approx, delta, rem, divisor, unsigned, wasm) ==
    IF isNegative(cur.approxRem) \/ greaterThan(cur.approxRem, rem)
    THEN DivideDecrease([num |-> NumSub(approx.num, delta), unsigned |-> unsigned],
                        delta, rem, divisor, unsigned, wasm)
    ELSE cur

DivideDecrease(approx, delta, rem, divisor, unsigned, wasm) ==
    DivideDecreaseFrom(DivideApprox(fromNumber(approx.num, approx.unsigned), divisor, wasm),
                       approx, delta, rem, divisor, unsigned, wasm)

\* line 697
DivideDelta(log2) ==
    IF log2 <= 48 THEN Num(FALSE, BOne) ELSE Num(FALSE, BPow2(log2 - 48))

\* lines 711-713
ForceOne(fin) ==
    [approxRes |-> IF isZero(fin.approxRes) THEN ONE ELSE fin.approxRes,
     approxRem |-> fin.approxRem]

\* lines 696-713 for the approximation of line 692; line 701 builds the first
\* approxRes as a signed Long
DivideIterFrom(approx, rem, divisor, unsigned, wasm, logUp) ==
    ForceOne(DivideDecrease([num |-> approx, unsigned |-> FALSE],
                            DivideDelta(CeilLog2(approx, logUp)),
                            rem, divisor, unsigned, wasm))

\* lines 692-713: one pass of the loop body up to the forced ONE
DivideIter(rem, divisor, unsigned, wasm, logUp) ==
    DivideIterFrom(MaxOneFloorDiv(toNumber(rem), toNumber(divisor)),
                   rem, divisor, unsigned, wasm, logUp)

\* lines 689-718.  A pass that subtracts a zero product leaves rem as it was,
\* and the pass depends on rem and divisor only, so the loop never exits.
RECURSIVE DivideLoop(_, _, _, _, _, _)
RECURSIVE DivideLoopTo(_, _, _, _, _, _, _)
DivideLoopTo(rem2, res2, rem, divisor, unsigned, wasm, logUp) ==
    IF rem2 = rem THEN NoReturn
    ELSE DivideLoop(rem2, res2, divisor, unsigned, wasm, logUp)

\* lines 715-716
DivideLoopNext(it, rem, res, divisor, unsigned, wasm, logUp) ==
    DivideLoopTo(subtract(rem, it.approxRem), add(res, it.approxRes),
                 rem, divisor, unsigned, wasm, logUp)

DivideLoop(rem, res, divisor, unsigned, wasm, logUp) ==
    IF ~greaterThanOrEqual(rem, divisor) THEN Return(res)
    ELSE DivideLoopNext(DivideIter(rem, divisor, unsigned, wasm, logUp),
                        rem, res, divisor, unsigned, wasm, logUp)

\* lines 632-681: what divide does before its loop: either the call is
\* settled (by a special case or by recursive calls) or the loop starts
Settled(o) == [loop |-> FALSE, out |-> o]

EnterLoop(rem0, res0, divisor) ==
    [loop |-> TRUE, rem |-> rem0, res |-> res0, divisor |-> divisor]

ThenNegate(o) == IF Returned(o) THEN Return(negate(o.val)) ELSE o

ThenAdd(approx, o) == IF Returned(o) THEN Return(add(approx, o.val)) ELSE o

\* lines 617-619: the guard against signed division overflow
OverflowPreCheck(this, divisor) ==
    ~this.unsigned /\ this.high = MinInt32 /\ divisor.low = -1 /\ divisor.high = -1

RECURSIVE divide(_, _, _, _)
RECURSIVE DividePre(_, _, _, _)

\* lines 648-654, approx = halfThis.div(divisor).shl(1)
DivideMinValueApprox(approx, this, divisor, wasm, logUp) ==
    IF equals(approx, ZERO)
    THEN Return(IF isNegative(divisor) THEN ONE ELSE NEG_ONE)
    ELSE ThenAdd(approx, divide(subtract(this, multiply(divisor, approx, wasm)),
                                divisor, wasm, logUp))

\* lines 646-654, half = halfThis.div(divisor)
DivideMinValue(half, this, divisor, wasm, logUp) ==
    IF ~Returned(half) THEN half
    ELSE DivideMinValueApprox(shiftLeft(half.val, 1), this, divisor, wasm, logUp)

\* lines 670-680, the divisor made unsigned
DividePreUnsigned(this, divisor) ==
    IF greaterThan(divisor, this) THEN Settled(Return(UZERO))
    ELSE IF greaterThan(divisor, shiftRightUnsigned(this, 1))
    THEN Settled(Return(UONE))
    ELSE EnterLoop(this, UZERO, divisor)

DividePre(this, divisor0, wasm, logUp) ==
    IF isZero(divisor0) THEN Settled(Throw("division by zero"))
    ELSE IF wasm
    THEN (IF OverflowPreCheck(this, divisor0)
          THEN Settled(Return(this))
          ELSE Settled(FromWasm(
                 IF this.unsigned
                 THEN wasm_div_u(this.low, this.high, divisor0.low, divisor0.high)
                 ELSE wasm_div_s(this.low, this.high, divisor0.low, divisor0.high),
                 this.unsigned)))
    ELSE IF isZero(this) THEN Settled(Return(IF this.unsigned THEN UZERO ELSE ZERO))
    ELSE IF ~this.unsigned
    THEN (IF equals(this, MIN_VALUE)
          THEN (IF equals(divisor0, ONE) \/ equals(divisor0, NEG_ONE)
                THEN Settled(Return(MIN_VALUE))
                ELSE IF equals(divisor0, MIN_VALUE) THEN Settled(Return(ONE))
                ELSE Settled(DivideMinValue(
                                divide(shiftRight(this, 1), divisor0, wasm, logUp),
                                this, divisor0, wasm, logUp)))
          ELSE IF equals(divisor0, MIN_VALUE)
          THEN Settled(Return(IF this.unsigned THEN UZERO ELSE ZERO))
          ELSE IF isNegative(this)
          THEN (IF isNegative(divisor0)
                THEN Settled(divide(negate(this), negate(divisor0), wasm, logUp))
                ELSE Settled(ThenNegate(divide(negate(this), divisor0, wasm, logUp))))
          ELSE IF isNegative(divisor0)
          THEN Settled(ThenNegate(divide(this, negate(divisor0), wasm, logUp)))
          ELSE EnterLoop(this, ZERO, divisor0))
    ELSE DividePreUnsigned(this, toUnsigned(divisor0))

\* the loop, or the outcome settled before it
DivideFrom(pre, unsigned, wasm, logUp) ==
    IF pre.loop
    THEN DivideLoop(pre.rem, pre.res, pre.divisor, unsigned, wasm, logUp)
    ELSE pre.out

divide(this, divisor0, wasm, logUp) ==
    DivideFrom(DividePre(this, divisor0, wasm, logUp), this.unsigned, wasm, logUp)

(***************************************************************************)
(* modulo, lines 725-745                                                   *)
(***************************************************************************)
\* line 744, q = this.div(divisor)
ThenRemainder(q, this, divisor, wasm) ==
    IF ~Returned(q) THEN q
    ELSE Return(subtract(this, multiply(q.val, divisor, wasm)))

\* modulo with a guard that takes x mod 0 to be x
moduloZeroGuard(this, divisor, wasm, logUp) ==
    IF isZero(divisor) THEN Return(this)
    ELSE IF wasm
    THEN FromWasm(IF this.unsigned
                  THEN wasm_rem_u(this.low, this.high, divisor.low, divisor.high)
                  ELSE wasm_rem_s(this.low, this.high, divisor.low, divisor.high),
                  this.unsigned)
    ELSE ThenRemainder(divide(this, divisor, wasm, logUp), this, divisor, wasm)

modulo(this, divisor, wasm, logUp) ==
    IF wasm
    THEN FromWasm(IF this.unsigned
                  THEN wasm_rem_u(this.low, this.high, divisor.low, divisor.high)
                  ELSE wasm_rem_s(this.low, this.high, divisor.low, divisor.high),
                  this.unsigned)
    ELSE ThenRemainder(divide(this, divisor, wasm, logUp), this, divisor, wasm)

(***************************************************************************)
(* Strings are sequences of characters; a character is the digit value of  *)
(* one of 0-9a-z, or the hyphen, the plus sign, or an upper case letter    *)
(* (UpperA for A up to UpperA + 25 for Z).                                 *)
(***************************************************************************)
Hyphen == 36

LetterX == 33

Plus == 37

UpperA == 38

\* the value of a character as a digit; 36 for a character that is no digit
DigitValue(c) ==
    IF c < 36 THEN c
    ELSE IF c >= UpperA THEN c - UpperA + 10
    ELSE 36

\* the texts of line 184
NaNText == <<UpperA + 13, 10, UpperA + 13>>

InfinityText == <<UpperA + 8, 23, 15, 18, 23, 18, 29, 34>>

ToUint32(n) == IF n.neg THEN BSub(BPow2(32), n.mag) ELSE n.mag

\* the digits of the 32-bit magnitude hi * 2^16 + lo, most significant first
RECURSIVE Digits(_, _, _)
Digits(hi, lo, radix) ==
    IF hi = 0 /\ lo = 0 THEN <<>>
    ELSE LET t == (hi % radix) * TWO_PWR_16_DBL + lo
         IN  Append(Digits(hi \div radix, t \div radix, radix), t % radix)

\* Number.prototype.toString(radix) of an integer below 2^32 in magnitude
NumberToString(n, radix) ==
    IF n.mag = BZero THEN <<0>>
    ELSE (IF n.neg THEN <<Hyphen>> ELSE <<>>) \o Digits(n.mag[2], n.mag[1], radix)

\* the chunk left as it is, without leading zeros
PadNone(digits) == digits

\* lines 300-302
RECURSIVE PadSix(_)
PadSix(digits) == IF Len(digits) < 6 THEN PadSix(<<0>> \o digits) ELSE digits

Prefixed(prefix, o) == IF Returned(o) THEN Return(prefix \o o.val) ELSE o

Suffixed(o, suffix) == IF Returned(o) THEN Return(o.val \o suffix) ELSE o

\* lines 292-305
RECURSIVE ToStringLoop(_, _, _, _, _, _)

\* the next pass; the test computes the text so far before that pass starts
ToStringNext(rem, result, radixToPower, radix, wasm, logUp) ==
    IF Len(result) >= 6
    THEN ToStringLoop(rem, result, radixToPower, radix, wasm, logUp)
    ELSE Return(result)

\* lines 296-304, rem = remDiv
ToStringEmit(rem, digits, result, radixToPower, radix, wasm, logUp) ==
    IF isZero(rem) THEN Return(digits \o result)
    ELSE ToStringNext(rem, PadSix(digits) \o result, radixToPower, radix, wasm, logUp)

\* lines 294-295
ToStringChunk(remDiv, rem, result, radixToPower, radix, wasm, logUp) ==
    IF ~Returned(remDiv) THEN remDiv
    ELSE ToStringEmit(remDiv.val,
                      NumberToString(Num(FALSE, ToUint32(toInt(subtract(rem,
                          multiply(remDiv.val, radixToPower, wasm))))), radix),
                      result, radixToPower, radix, wasm, logUp)

ToStringLoop(rem, result, radixToPower, radix, wasm, logUp) ==
    ToStringChunk(divide(rem, radixToPower, wasm, logUp),
                  rem, result, radixToPower, radix, wasm, logUp)

RECURSIVE toString(_, _, _, _)

\* lines 278-280, div = this.div(radixLong)
ToStringMinValue(div, radixLong, this, radix, wasm, logUp) ==
    IF ~Returned(div) THEN div
    ELSE Suffixed(toString(div.val, radix, wasm, logUp),
                  NumberToString(toInt(subtract(multiply(div.val, radixLong, wasm),
                                                this)), radix))

\* lines 277-278
ToStringMinValueBy(radixLong, this, radix, wasm, logUp) ==
    ToStringMinValue(divide(this, radixLong, wasm, logUp),
                     radixLong, this, radix, wasm, logUp)

\* toString(radix), lines 265-306; radix0 = 0 stands for an omitted radix
toString(this, radix0, wasm, logUp) ==
    LET radix == IF radix0 = 0 THEN 10 ELSE radix0
    IN  IF radix < 2 \/ 36 < radix THEN Throw("RangeError")
        ELSE IF isZero(this) THEN Return(<<0>>)
        ELSE IF isNegative(this)
        THEN (IF equals(this, MIN_VALUE)
              THEN ToStringMinValueBy(fromNumber(NumOfInt(radix), FALSE),
                                      this, radix, wasm, logUp)
              ELSE Prefixed(<<Hyphen>>, toString(negate(this), radix, wasm, logUp)))
        ELSE ToStringLoop(this, <<>>,
                          fromNumber(Num(FALSE, PowInt(radix, 6)), this.unsigned),
                          radix, wasm, logUp)

\* parseInt(chunk, radix): after a sign, and after a "0x" or "0X" prefix when
\* the radix is 16, the longest prefix of digits below the radix; NaN when
\* that prefix is empty
RECURSIVE ParseDigits(_, _, _, _)
ParseDigits(str, i, radix, acc) ==
    IF i > Len(str) \/ DigitValue(str[i]) >= radix THEN acc
    ELSE ParseDigits(str, i + 1, radix,
                     [n |-> acc.n + 1,
                      v |-> BAdd(BMulLimb(acc.v, radix),
                                 <<DigitValue(str[i]), 0, 0, 0, 0>>)])

Unsigned(str) ==
    IF Len(str) >= 1 /\ str[1] \in {Hyphen, Plus} THEN SubSeq(str, 2, Len(str)) ELSE str

Unprefixed(str, radix) ==
    IF radix = 16 /\ Len(str) >= 2 /\ str[1] = 0 /\ DigitValue(str[2]) = LetterX
    THEN SubSeq(str, 3, Len(str)) ELSE str

ParsedNumber(p, negative) == IF p.n = 0 THEN NaN ELSE Num(negative, p.v)

parseInt(str, radix) ==
    ParsedNumber(ParseDigits(Unprefixed(Unsigned(str), radix), 1, radix,
                             [n |-> 0, v |-> BZero]),
                 Len(str) >= 1 /\ str[1] = Hyphen)

Min(x, y) == IF x < y THEN x ELSE y

IndexOfHyphen(str) ==
    IF \E i \in 1..Len(str) : str[i] = Hyphen
    THEN CHOOSE i \in 1..Len(str) :
            str[i] = Hyphen /\ \A j \in 1..(i - 1) : str[j] # Hyphen
    ELSE 0

\* lines 201-212; result stays a signed Long until line 213 sets its flag,
\* and the test computes it before the next pass starts
RECURSIVE FromStringLoop(_, _, _, _, _)
FromStringLoop(str, i, result, radix, wasm) ==
    IF i >= Len(str) \/ result.unsigned THEN result
    ELSE LET size  == Min(8, Len(str) - i)
             value == parseInt(SubSeq(str, i + 1, i + size), radix)
             power == fromNumber(Num(FALSE, PowInt(radix, size)), FALSE)
         IN  FromStringLoop(str, i + 8,
                            add(multiply(result, power, wasm), fromNumber(value, FALSE)),
                            radix, wasm)

\* the assignment of line 213 left out
WithoutUnsigned(result, unsigned) == result

\* line 213
WithUnsigned(result, unsigned) == fromBits(result.low, result.high, unsigned)

\* fromString(str, unsigned, radix), lines 174-215, for a boolean `unsigned`;
\* radix0 = 0 stands for an omitted radix
RECURSIVE fromString(_, _, _, _)
fromString(str, unsigned, radix0, wasm) ==
    LET radix == IF radix0 = 0 THEN 10 ELSE radix0
        p     == IndexOfHyphen(str)
    IN  IF Len(str) = 0 THEN Throw("empty string")
        ELSE IF str \in {NaNText, InfinityText, <<Plus>> \o InfinityText,
                         <<Hyphen>> \o InfinityText}
        THEN Return(IF unsigned THEN UZERO ELSE ZERO)
        ELSE IF radix < 2 \/ 36 < radix THEN Throw("RangeError")
        ELSE IF p > 1 THEN Throw("interior hyphen")
        ELSE IF p = 1
        THEN ThenNegate(fromString(SubSeq(str, 2, Len(str)), unsigned, radix, wasm))
        ELSE Return(WithUnsigned(FromStringLoop(str, 0, ZERO, radix, wasm), unsigned))

(***************************************************************************)
(* fromValue(val, unsigned = false), lines 217-224.  The argument val is   *)
(* tagged with its typeof; unsigned0 is the second argument as passed:     *)
(* "none" when it is omitted, else "true" or "false".  The default value   *)
(* of the parameter makes `unsigned` a boolean in both cases, so the test  *)
(* of line 223 never selects val.unsigned.                                 *)
(***************************************************************************)
fromValue(val, unsigned0, wasm) ==
    LET unsigned == IF unsigned0 = "none" THEN FALSE ELSE unsigned0 = "true"
    IN  IF val.kind = "number" THEN Return(fromNumber(val.val, unsigned))
        ELSE IF val.kind = "string" THEN fromString(val.val, unsigned, 0, wasm)
        ELSE Return(fromBits(val.val.low, val.val.high, unsigned))

(***************************************************************************)
(* Objects. A Long is an object; heap.mem lists the objects that exist, an *)
(* address is an index into it, and 0 stands for an object the call under  *)
(* way has created. An operator named ...At gives the object a method      *)
(* returns: the address of one that existed, or 0.                         *)
(***************************************************************************)
\* lines 226-256: the objects made when the class loads, in that order
Static ==
    [ZERO |-> 1, UZERO |-> 2, ONE |-> 3, UONE |-> 4, MAX_VALUE |-> 5, NEG_ONE |-> 6,
     MIN_VALUE |-> 7, MAX_UNSIGNED_VALUE |-> 8, TWO_PWR_24 |-> 9]

\* fromInt has cached ZERO, ONE and NEG_ONE, and UZERO and UONE; a cache is
\* a set of pairs <<key, address>>
Loaded ==
    [mem |-> <<ZERO, UZERO, ONE, UONE, MAX_VALUE, NEG_ONE, MIN_VALUE,
               MAX_UNSIGNED_VALUE, TWO_PWR_24>>,
     INT_CACHE |-> {<<0, Static.ZERO>>, <<1, Static.ONE>>, <<-1, Static.NEG_ONE>>},
     UINT_CACHE |-> {<<0, Static.UZERO>>, <<1, Static.UONE>>}]

Cached(cache, key) == \E e \in cache : e[1] = key

CachedAt(cache, key) == (CHOOSE e \in cache : e[1] = key)[2]

\* add that hands back its receiver when the addend is zero
addAtShared(this, addend, at) == IF isZero(addend) THEN at ELSE 0

\* line 501: add returns Long.fromBits(...), a new object
addAt(this, addend, at) == 0

\* lines 459-462
negateAt(this, at) ==
    IF ~this.unsigned /\ equals(this, MIN_VALUE) THEN Static.MIN_VALUE
    ELSE addAt(not(this), ONE, 0)

\* lines 916-919
toUnsignedAt(this, at) == IF this.unsigned THEN at ELSE 0

\* lines 149-168
fromNumberAt(value, unsigned) ==
    IF value.nan THEN (IF unsigned THEN Static.UZERO ELSE Static.ZERO)
    ELSE IF unsigned /\ value.neg THEN Static.UZERO
    ELSE IF unsigned /\ NumLe(TWO_PWR_64_DBL, value) THEN Static.MAX_UNSIGNED_VALUE
    ELSE IF ~unsigned /\ NumLe(value, NumNeg(TWO_PWR_63_DBL)) THEN Static.MIN_VALUE
    ELSE IF ~unsigned /\ NumLe(TWO_PWR_63_DBL, NumAdd(value, Num(FALSE, BOne)))
    THEN Static.MAX_VALUE
    ELSE IF value.neg THEN negateAt(fromNumber(NumNeg(value), unsigned), 0)
    ELSE 0

\* lines 515-595
RECURSIVE multiplyAt(_, _, _, _)
multiplyAt(this, multiplier, at, wasm) ==
    IF isZero(this) THEN at
    ELSE IF wasm THEN 0
    ELSE IF isZero(multiplier) THEN (IF this.unsigned THEN Static.UZERO ELSE Static.ZERO)
    ELSE IF equals(this, MIN_VALUE)
    THEN (IF isOdd(multiplier) THEN Static.MIN_VALUE ELSE Static.ZERO)
    ELSE IF equals(multiplier, MIN_VALUE)
    THEN (IF isOdd(this) THEN Static.MIN_VALUE ELSE Static.ZERO)
    ELSE IF isNegative(this)
    THEN (IF isNegative(multiplier)
          THEN multiplyAt(negate(this), negate(multiplier), 0, wasm)
          ELSE negateAt(multiply(negate(this), multiplier, wasm), 0))
    ELSE IF isNegative(multiplier)
    THEN negateAt(multiply(this, negate(multiplier), wasm), 0)
    ELSE IF lessThan(this, TWO_PWR_24) /\ lessThan(multiplier, TWO_PWR_24)
    THEN fromNumberAt(NumMul(toNumber(this), toNumber(multiplier)), this.unsigned)
    ELSE 0

\* lines 200-212: the object `result` names when the loop ends
RECURSIVE FromStringTarget(_, _, _, _, _, _)

\* lines 207 and 209-210, power the multiplier and addend the chunk's value
FromStringPass(str, i, result, at, power, addend, radix, wasm) ==
    FromStringTarget(str, i + 8,
                     add(multiply(result, power, wasm), addend),
                     addAt(multiply(result, power, wasm), addend,
                           multiplyAt(result, power, at, wasm)),
                     radix, wasm)

FromStringTarget(str, i, result, at, radix, wasm) ==
    IF i >= Len(str) \/ result.unsigned THEN at
    ELSE FromStringPass(str, i, result, at,
                        fromNumber(Num(FALSE, PowInt(radix, Min(8, Len(str) - i))), FALSE),
                        fromNumber(parseInt(SubSeq(str, i + 1, i + Min(8, Len(str) - i)),
                                            radix), FALSE),
                        radix, wasm)

\* what a call of fromString does to objects: whether it reaches the
\* assignment of line 213, the object assigned to, and the object returned
NoAssignment(at) == [assigned |-> FALSE, target |-> 0, at |-> at]

Assignment(target) == [assigned |-> TRUE, target |-> target, at |-> target]

\* line 193: the object .neg() returns for the inner call's result
NegatedAt(inner, o) ==
    IF Returned(o) THEN [inner EXCEPT !.at = negateAt(o.val, inner.at)] ELSE inner

RECURSIVE FromStringObjects(_, _, _, _)
FromStringObjects(str, unsigned, radix0, wasm) ==
    LET radix == IF radix0 = 0 THEN 10 ELSE radix0
        p     == IndexOfHyphen(str)
    IN  IF Len(str) = 0 THEN NoAssignment(0)
        ELSE IF str \in {NaNText, InfinityText, <<Plus>> \o InfinityText,
                         <<Hyphen>> \o InfinityText}
        THEN NoAssignment(IF unsigned THEN Static.UZERO ELSE Static.ZERO)
        ELSE IF radix < 2 \/ 36 < radix THEN NoAssignment(0)
        ELSE IF p > 1 THEN NoAssignment(0)
        ELSE IF p = 1
        THEN NegatedAt(FromStringObjects(SubSeq(str, 2, Len(str)), unsigned, radix, wasm),
                       fromString(SubSeq(str, 2, Len(str)), unsigned, radix, wasm))
        ELSE Assignment(FromStringTarget(str, 0, ZERO, Static.ZERO, radix, wasm))

(***************************************************************************)
(* A client of the class: it picks two operands and calls the operations   *)
(* in the chains the specification speaks of.                              *)
(***************************************************************************)
VARIABLES
    wasm,    \* the WebAssembly module was instantiated (lines 38-52)
    logUp,   \* how this platform's Math.log rounds next to a power of two
    a, b,    \* the operands
    radix,   \* the radix argument, 0 when omitted
    pc,      \* the calls made so far
    acc,     \* outcome of the latest call that yields a Long
    tmp,     \* outcome of a.mod(b), kept while the chain goes on
    cmp,     \* result of a.compare(b)
    str,     \* outcome of a.toString(radix), or the text to parse
    loop,    \* locals of divide while its loop runs
    heap,    \* the Long objects that exist, and the two caches of fromInt
    ref,     \* the objects the client holds, by address
    numBits, \* the bit count of the latest rotation
    override \* the unsigned argument of fromValue, "none" when omitted

vars == <<wasm, logUp, a, b, radix, pc, acc, tmp, cmp, str, loop,
          heap, ref, numBits, override>>

\* the variables the arithmetic and the text clients leave alone
rest == <<heap, ref, numBits, override>>

NoHeap == [mem |-> <<>>]

NoRef == [this |-> 0]

MaxSmall == 2

MaxIter == 4

MinRadix == 2

MaxRadix == 36

LowWords == (-MaxSmall..MaxSmall) \cup {-7}

HighWords == {MinInt32, -1, 0, MaxInt32}

Values == {fromBits(l, h, u) : l \in LowWords, h \in HighWords, u \in BOOLEAN}

Radixes == {0} \cup (MinRadix..MaxRadix)

Idle == [kind |-> "idle"]

NoLoop == [iter |-> 0]

Init ==
    /\ wasm \in BOOLEAN
    /\ logUp \in BOOLEAN
    /\ a \in Values
    /\ b \in Values
    /\ radix = 0
    /\ pc = "start"
    /\ acc = Idle
    /\ tmp = Idle
    /\ cmp = 0
    /\ str = Idle
    /\ loop = NoLoop
    /\ heap = NoHeap
    /\ ref = NoRef
    /\ numBits = 0
    /\ override = "none"

Add ==
    /\ \/ /\ pc = "start"
          /\ acc' = Return(add(a, b))
          /\ pc' = "add"
       \/ /\ pc = "div_mul_mod"
          /\ Returned(acc) /\ Returned(tmp)
          /\ acc' = Return(add(acc.val, tmp.val))
          /\ pc' = "identity"
    /\ UNCHANGED <<rest, wasm, logUp, a, b, radix, tmp, cmp, str, loop>>

Subtract ==
    /\ pc = "add"
    /\ acc' = Return(subtract(acc.val, b))
    /\ pc' = "add_sub"
    /\ UNCHANGED <<rest, wasm, logUp, a, b, radix, tmp, cmp, str, loop>>

Negate ==
    /\ \/ /\ pc = "start"
          /\ acc' = Return(negate(a))
          /\ pc' = "neg"
       \/ /\ pc = "neg"
          /\ acc' = Return(negate(acc.val))
          /\ pc' = "neg_neg"
    /\ UNCHANGED <<rest, wasm, logUp, a, b, radix, tmp, cmp, str, loop>>

Compare ==
    /\ pc = "start"
    /\ cmp' = compare(a, b)
    /\ pc' = "cmp"
    /\ UNCHANGED <<rest, wasm, logUp, a, b, radix, acc, tmp, str, loop>>

Multiply ==
    /\ \/ /\ pc = "start"
          /\ acc' = Return(multiply(a, b, wasm))
          /\ pc' = "mul"
       \/ /\ pc = "div"
          /\ Returned(acc)
          /\ acc' = Return(multiply(acc.val, b, wasm))
          /\ pc' = "div_mul"
    /\ UNCHANGED <<rest, wasm, logUp, a, b, radix, tmp, cmp, str, loop>>

\* divide settled before its loop, or at the entry of the loop
DivideEnter(pre) ==
    IF pre.loop
    THEN /\ pc' = "divloop"
         /\ loop' = [rem |-> pre.rem, res |-> pre.res, divisor |-> pre.divisor,
                     prev |-> pre.rem, iter |-> 0]
         /\ acc' = acc
    ELSE /\ pc' = "div"
         /\ acc' = pre.out
         /\ loop' = loop

\* a.div(b) up to its return or to the entry of its loop
Divide ==
    /\ pc = "start"
    /\ DivideEnter(DividePre(a, b, wasm, logUp))
    /\ UNCHANGED <<rest, wasm, logUp, a, b, radix, tmp, cmp, str>>

\* lines 715-716 on the locals of the running call
LoopAfter(it) ==
    [rem |-> subtract(loop.rem, it.approxRem), res |-> add(loop.res, it.approxRes),
     divisor |-> loop.divisor, prev |-> loop.rem, iter |-> loop.iter + 1]

\* one pass of the loop of lines 689-717
DivideLoopBody ==
    /\ pc = "divloop"
    /\ loop.iter < MaxIter
    /\ greaterThanOrEqual(loop.rem, loop.divisor)
    /\ loop' = LoopAfter(DivideIter(loop.rem, loop.divisor, a.unsigned, wasm, logUp))
    /\ UNCHANGED <<rest, wasm, logUp, a, b, radix, pc, acc, tmp, cmp, str>>

\* the loop test fails: line 718
DivideLoopExit ==
    /\ pc = "divloop"
    /\ ~greaterThanOrEqual(loop.rem, loop.divisor)
    /\ acc' = Return(loop.res)
    /\ pc' = "div"
    /\ loop' = NoLoop
    /\ UNCHANGED <<rest, wasm, logUp, a, b, radix, tmp, cmp, str>>

Modulo ==
    /\ \/ /\ pc = "start"
          /\ acc' = modulo(a, b, wasm, logUp)
          /\ pc' = "mod"
          /\ tmp' = tmp
       \/ /\ pc = "div_mul"
          /\ tmp' = modulo(a, b, wasm, logUp)
          /\ pc' = "div_mul_mod"
          /\ acc' = acc
    /\ UNCHANGED <<rest, wasm, logUp, a, b, radix, cmp, str, loop>>

Next ==
    \/ Add
    \/ Subtract
    \/ Negate
    \/ Compare
    \/ Multiply
    \/ Divide
    \/ DivideLoopBody
    \/ DivideLoopExit
    \/ Modulo

Spec == Init /\ [][Next]_vars

(***************************************************************************)
(* A client that prints a value and parses the text back.                  *)
(***************************************************************************)
\* the values printed: those of Values and some with a high word in between
StrValues == Values \cup {fromBits(l, 305419896, u) : l \in LowWords, u \in BOOLEAN}

InitStr ==
    /\ wasm \in BOOLEAN
    /\ logUp \in BOOLEAN
    /\ a \in StrValues
    /\ b = ONE
    /\ radix \in Radixes
    /\ pc = "start"
    /\ acc = Idle
    /\ tmp = Idle
    /\ cmp = 0
    /\ str = Idle
    /\ loop = NoLoop
    /\ heap = NoHeap
    /\ ref = NoRef
    /\ numBits = 0
    /\ override = "none"

ToString ==
    /\ pc = "start"
    /\ str' = toString(a, radix, wasm, logUp)
    /\ pc' = "str"
    /\ UNCHANGED <<rest, wasm, logUp, a, b, radix, acc, tmp, cmp, loop>>

FromString ==
    /\ pc = "str"
    /\ Returned(str)
    /\ acc' = fromString(str.val, a.unsigned, radix, wasm)
    /\ pc' = "parsed"
    /\ UNCHANGED <<rest, wasm, logUp, a, b, radix, tmp, cmp, str, loop>>

NextStr ==
    \/ ToString
    \/ FromString

SpecStr == InitStr /\ [][NextStr]_vars

(***************************************************************************)
(* A client that parses texts of its own.                                  *)
(***************************************************************************)
\* "", "1", "-1", "--1", "1-", "1-2", "-", "-1-2", "+5", "z", "0x1f", "Na",
\* "123456789", and the texts of line 184 with and without a sign
Texts ==
    {<<>>, <<1>>, <<Hyphen, 1>>, <<Hyphen, Hyphen, 1>>, <<1, Hyphen>>,
     <<1, Hyphen, 2>>, <<Hyphen>>, <<Hyphen, 1, Hyphen, 2>>, <<Plus, 5>>, <<35>>,
     <<0, LetterX, 1, 15>>, <<UpperA + 13, 10>>, <<1, 2, 3, 4, 5, 6, 7, 8, 9>>,
     NaNText, InfinityText, <<Plus>> \o InfinityText, <<Hyphen>> \o InfinityText,
     <<Hyphen>> \o NaNText}

\* a radix argument: 0 (or none), one below and one above the range, and
\* some within it
ParseRadixes == {0, MinRadix - 1, MinRadix, 10, 16, MaxRadix, MaxRadix + 1}

InitParse ==
    /\ wasm \in BOOLEAN
    /\ logUp \in BOOLEAN
    /\ a \in {ZERO, UZERO}
    /\ b = ONE
    /\ radix \in ParseRadixes
    /\ pc = "str"
    /\ acc = Idle
    /\ tmp = Idle
    /\ cmp = 0
    /\ str \in {Return(t) : t \in Texts}
    /\ loop = NoLoop
    /\ heap = NoHeap
    /\ ref = NoRef
    /\ numBits = 0
    /\ override = "none"

NextParse == FromString

SpecParse == InitParse /\ [][NextParse]_vars

(***************************************************************************)
(* A client that keeps the objects the calls return: `this` is the latest  *)
(* and `other` the one before it.                                          *)
(***************************************************************************)
MaxHeap == 11

\* arguments of fromInt: cached before, cacheable, and outside the cache
IntArgs == {0, 5, 300}

\* "0", "-5", "12", "NaN", "-9223372036854775808"
HeapTexts ==
    {<<0>>, <<Hyphen, 5>>, <<1, 2>>, NaNText,
     <<Hyphen, 9, 2, 2, 3, 3, 7, 2, 0, 3, 6, 8, 5, 4, 7, 7, 5, 8, 0, 8>>}

InitHeap ==
    /\ wasm \in BOOLEAN
    /\ logUp = FALSE
    /\ a = ZERO
    /\ b = ONE
    /\ radix = 0
    /\ pc = "heap"
    /\ acc = Idle
    /\ tmp = Idle
    /\ cmp = 0
    /\ str = Idle
    /\ loop = NoLoop
    /\ heap = Loaded
    /\ ref = [this |-> Static.ZERO, other |-> Static.ONE, assigned |-> FALSE, target |-> 0]
    /\ numBits = 0
    /\ override = "none"

\* a call leaves heap h and returns the object at `at`, or a new object of
\* value v when at = 0
Returns(h, v, at) ==
    IF at # 0
    THEN /\ heap' = h
         /\ ref' = [this |-> at, other |-> ref.this, assigned |-> FALSE, target |-> 0]
    ELSE /\ heap' = [h EXCEPT !.mem = Append(@, v)]
         /\ ref' = [this |-> Len(h.mem) + 1, other |-> ref.this,
                    assigned |-> FALSE, target |-> 0]

\* lines 117-147, the cache being INT_CACHE or UINT_CACHE
FromIntCached(value, unsigned, cacheable, cache) ==
    IF cacheable /\ Cached(cache, value)
    THEN Returns(heap, fromInt(value, unsigned), CachedAt(cache, value))
    ELSE IF cacheable /\ unsigned
    THEN Returns([heap EXCEPT !.UINT_CACHE = @ \cup {<<value, Len(heap.mem) + 1>>}],
                 fromInt(value, unsigned), 0)
    ELSE IF cacheable
    THEN Returns([heap EXCEPT !.INT_CACHE = @ \cup {<<value, Len(heap.mem) + 1>>}],
                 fromInt(value, unsigned), 0)
    ELSE Returns(heap, fromInt(value, unsigned), 0)

HeapFromInt ==
    /\ pc = "heap"
    /\ Len(heap.mem) < MaxHeap
    /\ \E value \in IntArgs, unsigned \in BOOLEAN :
          IF unsigned
          THEN FromIntCached(value, unsigned, 0 <= value /\ value < 256, heap.UINT_CACHE)
          ELSE FromIntCached(value, unsigned, -128 <= value /\ value < 128, heap.INT_CACHE)
    /\ UNCHANGED <<wasm, logUp, a, b, radix, pc, acc, tmp, cmp, str, loop, numBits, override>>

HeapAdd ==
    /\ pc = "heap"
    /\ Len(heap.mem) < MaxHeap
    /\ Returns(heap, add(heap.mem[ref.this], heap.mem[ref.other]),
               addAt(heap.mem[ref.this], heap.mem[ref.other], ref.this))
    /\ UNCHANGED <<wasm, logUp, a, b, radix, pc, acc, tmp, cmp, str, loop, numBits, override>>

HeapNegate ==
    /\ pc = "heap"
    /\ Len(heap.mem) < MaxHeap
    /\ Returns(heap, negate(heap.mem[ref.this]), negateAt(heap.mem[ref.this], ref.this))
    /\ UNCHANGED <<wasm, logUp, a, b, radix, pc, acc, tmp, cmp, str, loop, numBits, override>>

HeapToUnsigned ==
    /\ pc = "heap"
    /\ Len(heap.mem) < MaxHeap
    /\ Returns(heap, toUnsigned(heap.mem[ref.this]),
               toUnsignedAt(heap.mem[ref.this], ref.this))
    /\ UNCHANGED <<wasm, logUp, a, b, radix, pc, acc, tmp, cmp, str, loop, numBits, override>>

\* line 213 on the objects that exist
Assigned(mem, r, unsigned) ==
    IF r.assigned /\ r.target # 0 THEN [mem EXCEPT ![r.target].unsigned = unsigned]
    ELSE mem

\* fromString has returned: o its outcome, r what it did to objects
FromStringReturns(o, r, unsigned) ==
    /\ Returned(o)
    /\ heap' = [heap EXCEPT !.mem = IF r.at # 0
                                    THEN Assigned(@, r, unsigned)
                                    ELSE Append(Assigned(@, r, unsigned), o.val)]
    /\ ref' = [this |-> IF r.at # 0 THEN r.at ELSE Len(heap.mem) + 1,
               other |-> ref.this, assigned |-> r.assigned, target |-> r.target]

HeapFromString ==
    /\ pc = "heap"
    /\ Len(heap.mem) < MaxHeap
    /\ \E t \in HeapTexts, unsigned \in BOOLEAN :
          FromStringReturns(fromString(t, unsigned, 0, wasm),
                            FromStringObjects(t, unsigned, 0, wasm), unsigned)
    /\ UNCHANGED <<wasm, logUp, a, b, radix, pc, acc, tmp, cmp, str, loop, numBits, override>>

NextHeap ==
    \/ HeapFromInt
    \/ HeapAdd
    \/ HeapNegate
    \/ HeapToUnsigned
    \/ HeapFromString

SpecHeap == InitHeap /\ [][NextHeap]_vars

(***************************************************************************)
(* A client that rotates a value left, and the result back right by the    *)
(* same count.                                                             *)
(***************************************************************************)
\* counts below 32, equal to 32, above 32, and beyond 63 (masked by & 63)
RotateCounts == {0, 1, 5, 16, 31, 32, 33, 48, 63, 64, 69, 96, 100}

InitRot ==
    /\ wasm = FALSE
    /\ logUp = FALSE
    /\ a \in Values
    /\ b = ZERO
    /\ radix = 0
    /\ pc = "start"
    /\ acc = Idle
    /\ tmp = Idle
    /\ cmp = 0
    /\ str = Idle
    /\ loop = NoLoop
    /\ heap = NoHeap
    /\ ref = NoRef
    /\ numBits \in RotateCounts
    /\ override = "none"

\* acc = a.rotateLeft(numBits)
RotateLeft ==
    /\ pc = "start"
    /\ acc' = rotateLeft(a, numBits)
    /\ pc' = "rotl"
    /\ UNCHANGED <<rest, wasm, logUp, a, b, radix, tmp, cmp, str, loop>>

\* tmp = acc.rotateRight(numBits); the call on undefined is a TypeError
RotateBack ==
    /\ pc = "rotl"
    /\ tmp' = IF Returned(acc) THEN Return(rotateRight(acc.val, numBits))
              ELSE Throw("TypeError")
    /\ pc' = "rotl_rotr"
    /\ UNCHANGED <<rest, wasm, logUp, a, b, radix, acc, cmp, str, loop>>

\* acc = a.rotateRight(numBits)
RotateRight ==
    /\ pc = "start"
    /\ acc' = Return(rotateRight(a, numBits))
    /\ pc' = "rotr"
    /\ UNCHANGED <<rest, wasm, logUp, a, b, radix, tmp, cmp, str, loop>>

NextRot ==
    \/ RotateLeft
    \/ RotateBack
    \/ RotateRight

SpecRot == InitRot /\ [][NextRot]_vars

(***************************************************************************)
(* A client that calls fromValue: tmp is the first argument and override   *)
(* the second.                                                             *)
(***************************************************************************)
\* Value-shaped records: the words and flag of every operand
Records == {[kind |-> "object", val |-> v] : v \in Values}

\* 0, 5, -1 and NaN
Numbers ==
    {[kind |-> "number", val |-> n] : n \in {NumOfInt(0), NumOfInt(5), NumOfInt(-1), NaN}}

\* "12", "-5" and ""
Strings == {[kind |-> "string", val |-> t] : t \in {<<1, 2>>, <<Hyphen, 5>>, <<>>}}

Overrides == {"none", "true", "false"}

InitValue ==
    /\ wasm \in BOOLEAN
    /\ logUp = FALSE
    /\ a = ZERO
    /\ b = ZERO
    /\ radix = 0
    /\ pc = "start"
    /\ acc = Idle
    /\ \/ tmp \in Records
       \/ tmp \in Numbers
       \/ tmp \in Strings
    /\ cmp = 0
    /\ str = Idle
    /\ loop = NoLoop
    /\ heap = NoHeap
    /\ ref = NoRef
    /\ numBits = 0
    /\ override \in Overrides

\* acc = Long.fromValue(tmp) or Long.fromValue(tmp, override)
FromValue ==
    /\ pc = "start"
    /\ acc' = fromValue(tmp, override, wasm)
    /\ pc' = "fromValue"
    /\ UNCHANGED <<rest, wasm, logUp, a, b, radix, tmp, cmp, str, loop>>

NextValue == FromValue

SpecValue == InitValue /\ [][NextValue]_vars

(***************************************************************************)
(* Properties                                                              *)
(***************************************************************************)
\* the 64-bit pattern of a value, as a number
Pattern(v) == BFromWords(v.low, v.high)

\* the value with the given flag whose pattern is x mod 2^64
OfPattern(x, unsigned) == fromBits(BLowWord(x), BHighWord(x), unsigned)

\* two calls end alike: both return the same triple, or both fail
SameOutcome(o1, o2) ==
    /\ o1.kind = o2.kind
    /\ Returned(o1) => o1.val = o2.val

\* C1: for every a and nonzero b, a.equals(a.div(b).mul(b).add(a.mod(b))),
\* with the accelerator or without it.
C1_DivMulModIdentity == pc = "identity" => equals(a, acc.val)

\* C2: multiply, divide and modulo return the same (low, high, unsigned)
\* triple, or fail alike, with the accelerator and with the emulated fallback.
C2_SameWithOrWithoutWasm ==
    /\ pc = "mul" => acc = Return(multiply(a, b, ~wasm))
    /\ pc = "div" => SameOutcome(acc, divide(a, b, ~wasm, logUp))
    /\ pc = "mod" => SameOutcome(acc, modulo(a, b, ~wasm, logUp))

\* the integer quotient of two signed values truncated toward zero, wrapped
TruncatedQuotient(x, y) ==
    IF BIsNeg64(x) # BIsNeg64(y)
    THEN BNeg64(BDivMod(BAbs64(x), BAbs64(y)).q)
    ELSE BMod64(BDivMod(BAbs64(x), BAbs64(y)).q)

\* C3: for signed a and nonzero signed b, a.div(b) is the quotient truncated
\* toward zero, wrapped to 64 bits, and the overflow pre-check returns the
\* dividend only for MIN_VALUE.div(-1); on both paths.
C3_TruncatedDivision ==
    (pc = "div" /\ ~a.unsigned /\ ~b.unsigned /\ ~isZero(b))
        => /\ acc = Return(OfPattern(TruncatedQuotient(Pattern(a), Pattern(b)), FALSE))
           /\ (wasm /\ OverflowPreCheck(a, b)) => (a = MIN_VALUE /\ b = NEG_ONE)

\* C4: without the accelerator divide terminates: every pass of the general
\* loop leaves a remainder that is not negative and strictly smaller than
\* before, and the recursion of the special cases returns.
C4_DivideTerminates ==
    ~wasm =>
        /\ (pc = "divloop" /\ loop.iter > 0)
               => /\ ~isNegative(loop.rem)
                  /\ BLt(Pattern(loop.rem), Pattern(loop.prev))
        /\ pc = "div" => acc.kind # "noreturn"

\* C5: divide and modulo called with a zero divisor fail with an error and
\* return no value, for signed and unsigned receivers, a zero receiver
\* included, with the accelerator and without it.
C5_DivisionByZeroFails ==
    isZero(b) =>
        /\ pc \in {"div", "mod"} => acc.kind = "throw"
        /\ pc \notin {"divloop", "div_mul", "div_mul_mod", "identity"}

\* C5, an unsigned zero has been taken modulo zero on the accelerated path
C5_ZeroModuloZero ==
    /\ pc = "mod"
    /\ wasm
    /\ isZero(b)
    /\ a = UZERO
    /\ acc.kind = "throw"

\* C6: for all a and b of any flags, a.add(b).sub(b).equals(a): the sum has
\* the pattern of a + b mod 2^64 and subtracting b restores the pattern of a.
C6_AddSubRoundTrip ==
    /\ pc = "add" => acc.val = OfPattern(BMod64(BAdd(Pattern(a), Pattern(b))), a.unsigned)
    /\ pc = "add_sub" => equals(a, acc.val) /\ Pattern(acc.val) = Pattern(a)

\* C6, a sum that carried out of the low word and out of bit 63 has been
\* undone
C6_CarriedSumUndone ==
    /\ pc = "add_sub"
    /\ a.low = -1 /\ a.high = -1
    /\ b.low = 2 /\ b.unsigned # a.unsigned

\* C7: a.negate().negate().equals(a); the signed MIN_VALUE negates to
\* itself and every other value negates to not(a) + 1.
C7_NegateInvolution ==
    /\ pc = "neg" =>
           /\ a = MIN_VALUE => acc.val = MIN_VALUE
           /\ a # MIN_VALUE =>
                  acc.val = OfPattern(BMod64(BAdd(Pattern(not(a)), BOne)), a.unsigned)
    /\ pc = "neg_neg" => equals(a, acc.val)

\* C7, MIN_VALUE has been negated twice
C7_MinValueNegatedTwice == pc = "neg_neg" /\ a = MIN_VALUE /\ acc.val = MIN_VALUE

\* the order of two 64-bit patterns read as unsigned numbers
UnsignedOrder(x, y) == IF x = y THEN 0 ELSE IF BLt(x, y) THEN -1 ELSE 1

\* C8: compare returns -1, 0 or 1, and when both operands are non-negative
\* and at least one of them is unsigned, whichever is the receiver, the
\* result orders them by their words read as unsigned numbers.
C8_CompareUnsignedOrder ==
    pc = "cmp" =>
        /\ cmp \in {-1, 0, 1}
        /\ (~isNegative(a) /\ ~isNegative(b) /\ (a.unsigned \/ b.unsigned))
               => cmp = UnsignedOrder(Pattern(a), Pattern(b))

\* the decimal digits of a number, most significant first
RECURSIVE DecimalDigits(_)
DecimalDigits(x) ==
    IF x = BZero THEN <<>>
    ELSE Append(DecimalDigits(BDivMod(x, <<10, 0, 0, 0, 0>>).q),
                BDivMod(x, <<10, 0, 0, 0, 0>>).r[1])

\* the decimal numeral of the integer a value represents under its flag
DecimalNumeral(v) ==
    IF isZero(v) THEN <<0>>
    ELSE IF isNegative(v) THEN <<Hyphen>> \o DecimalDigits(BNeg64(Pattern(v)))
    ELSE DecimalDigits(Pattern(v))

\* C9: toString() with the default radix returns the decimal numeral of the
\* integer the value represents under its flag: "0" for zero, a leading "-"
\* for negative signed values, no leading zeros; MAX_VALUE gives
\* "9223372036854775807", MIN_VALUE "-9223372036854775808" and the unsigned
\* all-ones pattern "18446744073709551615".
C9_DefaultRadixDecimal ==
    (pc = "str" /\ radix = 0) =>
        /\ str = Return(DecimalNumeral(a))
        /\ a = MAX_VALUE =>
               str.val = <<9, 2, 2, 3, 3, 7, 2, 0, 3, 6, 8, 5, 4, 7, 7, 5, 8, 0, 7>>
        /\ a = MIN_VALUE =>
               str.val = <<Hyphen, 9, 2, 2, 3, 3, 7, 2, 0, 3, 6, 8, 5, 4, 7, 7, 5, 8, 0, 8>>
        /\ a = MAX_UNSIGNED_VALUE =>
               str.val = <<1, 8, 4, 4, 6, 7, 4, 4, 0, 7, 3, 7, 0, 9, 5, 5, 1, 6, 1, 5>>

\* C9, MIN_VALUE has been printed with the default radix
C9_MinValuePrinted == pc = "str" /\ radix = 0 /\ a = MIN_VALUE /\ Returned(str)

\* C10: for every radix r in 2..36 and every value v with flag u,
\* fromString(v.toString(r), u, r).equals(v).
C10_StringRoundTrip ==
    (pc = "parsed" /\ radix \in MinRadix..MaxRadix) =>
        /\ Returned(acc)
        /\ equals(acc.val, a)

\* C10, the unsigned all-ones pattern has been printed and parsed back in
\* radix 36
C10_AllOnesRoundTrip ==
    /\ pc = "parsed"
    /\ radix = MaxRadix
    /\ a = MAX_UNSIGNED_VALUE
    /\ Returned(acc)

\* a hyphen at a position of the text other than the first
InteriorHyphen(t) == \E i \in 2..Len(t) : t[i] = Hyphen

\* a radix argument outside [2, 36]; 0 is what an omitted radix reads as
RadixOutside(r) == r # 0 /\ (r < MinRadix \/ r > MaxRadix)

\* C11: fromString fails with an error, returning no value, whenever the text
\* is empty, whenever the radix is outside [2, 36], and whenever a "-" occurs
\* at a position of the text other than position 0.
C11_FromStringFails ==
    (pc = "parsed" /\ (Len(str.val) = 0 \/ RadixOutside(radix) \/ InteriorHyphen(str.val)))
        => acc.kind = "throw"

\* C12: no call changes the (low, high, unsigned) triple of an object that
\* existed before it: operands, the named constants and the cached instances
\* stay as they are, and the assignment of fromString to the unsigned flag
\* always goes to an object created inside that call.
C12_NoMutation ==
    [][/\ \A i \in 1..Len(heap.mem) : heap'.mem[i] = heap.mem[i]
       /\ ref'.assigned => ref'.target = 0]_vars

\* C12, fromString has set the flag of the object it returned, and a small
\* integer has been cached since the class loaded
C12_FlagSetOnFreshObject ==
    /\ pc = "heap"
    /\ ref.assigned
    /\ ref.this > Len(Loaded.mem)
    /\ heap.mem[ref.this].unsigned
    /\ Cached(heap.INT_CACHE, 5)

\* the pattern x rotated left by k bits, 0 <= k < 64
RotatedLeft(x, k) ==
    IF k = 0 THEN x ELSE BAdd(BMod64(BShl(x, k)), BShr(x, 64 - k))

\* C13: rotateLeft(n) returns the value whose pattern is the receiver's
\* rotated left by n mod 64, with the receiver's flag, and rotateRight(n) of
\* that result has the receiver's pattern again, for every count.
C13_RotateLeftThenRight ==
    /\ pc = "rotl" =>
          /\ Returned(acc)
          /\ Pattern(acc.val) = RotatedLeft(Pattern(a), numBits % 64)
          /\ acc.val.unsigned = a.unsigned
    /\ pc = "rotl_rotr" =>
          /\ Returned(tmp)
          /\ tmp.val = a

\* C13, the counts for which rotateLeft has a return statement
C13_RotateUpTo32 ==
    numBits % 64 <= 32 => C13_RotateLeftThenRight

\* C13, rotateRight alone: the pattern rotated right by n mod 64
C13_RotateRightPattern ==
    pc = "rotr" =>
        /\ RotatedLeft(Pattern(acc.val), numBits % 64) = Pattern(a)
        /\ acc.val.unsigned = a.unsigned

\* C14: without the accelerator, multiply returns a value whose 64-bit
\* pattern is (A * B) mod 2^64 for the patterns A and B of the operands.
C14_MultiplyWraps ==
    pc = "mul" /\ ~wasm =>
        /\ Returned(acc)
        /\ Pattern(acc.val) = BMod64(BMul(Pattern(a), Pattern(b)))

\* C14, a product of the 16-bit chunks that passes 2^64 and is cut there
C14_ChunkProductCut ==
    /\ pc = "mul" /\ ~wasm
    /\ ~isNegative(a) /\ ~isNegative(b)
    /\ ~lessThan(a, TWO_PWR_24) /\ ~lessThan(b, TWO_PWR_24)
    /\ BMul(Pattern(a), Pattern(b)) # BMod64(BMul(Pattern(a), Pattern(b)))
    /\ ~isZero(acc.val)

\* the flag of the result of the call that led to pc is the receiver's
FlagKept(at, receiver) ==
    pc = at /\ Returned(acc) => acc.val.unsigned = receiver.unsigned

\* C15: add, subtract, multiply, divide and modulo each return a value whose
\* unsigned flag is the receiver's, whatever the other operand, with or
\* without the accelerator.
C15_ReceiverFlagKept ==
    /\ FlagKept("add", a)
    /\ FlagKept("add_sub", add(a, b))
    /\ FlagKept("mul", a)
    /\ FlagKept("div", a)
    /\ FlagKept("mod", a)

\* C15, every call but the emulated multiply
C15_FlagKeptButEmulatedMultiply ==
    ~(pc = "mul" /\ ~wasm) => C15_ReceiverFlagKept

\* C16: fromValue on a Value-shaped record returns the record's low and high
\* words, with the record's flag when no override is passed and with the
\* overriding flag when one is.
C16_FromValueRecord ==
    pc = "fromValue" /\ tmp.kind = "object" =>
        /\ Returned(acc)
        /\ acc.val.low = tmp.val.low
        /\ acc.val.high = tmp.val.high
        /\ acc.val.unsigned = IF override = "none" THEN tmp.val.unsigned
                              ELSE override = "true"

\* C16, the part that holds: the words are the record's, and a flag that is
\* passed is the result's
C16_WordsAndOverride ==
    pc = "fromValue" /\ tmp.kind = "object" =>
        /\ Returned(acc)
        /\ acc.val.low = tmp.val.low
        /\ acc.val.high = tmp.val.high
        /\ override # "none" => acc.val.unsigned = (override = "true")

=============================================================================
